---- MODULE Spec2Model ----
(***************************************************************************)
(* Differential attention layer (Diff-Transformer/diff/                    *)
(* multihead_flashdiff_1.py): repeat_kv, lambda_init_fn and                *)
(* MultiheadFlashDiff1.__init__ / forward.                                 *)
(*                                                                         *)
(* Tensors are records [shape, data] with the elements in logical          *)
(* row-major order, so that view / reshape / expand / indexing are index   *)
(* computations that can be got wrong.                                     *)
(***************************************************************************)
EXTENDS Integers, Sequences, FiniteSets, TLC

VARIABLES
  rk_pc, rk_x, rk_n, rk_out,   \* a call of repeat_kv: position, arguments, result
  pc,                          \* the layer: "start", "ready" (constructed), "failed"
  ctor,                        \* the arguments __init__ was called with
  layer,                       \* the attributes of self
  fwd,                         \* the latest forward call: arguments and outcome
  kept,                        \* some earlier forward call on the same layer
  li_pc, li_depth, li_val, li_next   \* calls of lambda_init_fn at depth, depth + 1

rk_vars == <<rk_pc, rk_x, rk_n, rk_out>>
layer_vars == <<pc, ctor, layer, fwd, kept>>
li_vars == <<li_pc, li_depth, li_val, li_next>>
vars == <<rk_pc, rk_x, rk_n, rk_out, pc, ctor, layer, fwd, kept,
          li_pc, li_depth, li_val, li_next>>

\* ------------------------------------------------------------------ bounds
MaxDim == 2
MaxRep == 3

\* ----------------------------------------------------------------- tensors
RECURSIVE Numel(_)
Numel(shape) ==
  IF shape = <<>> THEN 1 ELSE Head(shape) * Numel(Tail(shape))

\* row-major offset of a multi-index (0-based) in a tensor of this shape
RECURSIVE Flat(_, _)
Flat(shape, idx) ==
  IF shape = <<>> THEN 0
  ELSE Head(idx) * Numel(Tail(shape)) + Flat(Tail(shape), Tail(idx))

\* the multi-index (0-based) of row-major offset n
RECURSIVE Unflat(_, _)
Unflat(shape, n) ==
  IF shape = <<>> THEN <<>>
  ELSE LET inner == Numel(Tail(shape))
       IN  <<n \div inner>> \o Unflat(Tail(shape), n % inner)

At(t, idx) == t.data[Flat(t.shape, idx) + 1]

\* x[:, :, None, ...]: a new axis of size 1 at position dim (0-based)
Unsqueeze(t, dim) ==
  [t EXCEPT !.shape = SubSeq(t.shape, 1, dim) \o <<1>>
                        \o SubSeq(t.shape, dim + 1, Len(t.shape))]

\* Tensor.expand: axes of size 1 are broadcast to the new size
Expand(t, shape) ==
  [t EXCEPT !.shape = shape,
            !.data = [i \in 1..Numel(shape) |->
                        At(t, [k \in 1..Len(shape) |->
                                 IF t.shape[k] = 1 THEN 0
                                 ELSE Unflat(shape, i - 1)[k]])]]

\* Tensor.view / Tensor.reshape: same elements in row-major order
CanReshape(t, shape) == Numel(t.shape) = Numel(shape)
Reshape(t, shape) == [t EXCEPT !.shape = shape]

\* t[..., i, ...] at axis dim (0-based): the axis is dropped
Select(t, dim, i) ==
  LET shape == SubSeq(t.shape, 1, dim) \o SubSeq(t.shape, dim + 2, Len(t.shape))
  IN  [t EXCEPT !.shape = shape,
                !.data = [n \in 1..Numel(shape) |->
                            LET idx == Unflat(shape, n - 1)
                            IN  At(t, SubSeq(idx, 1, dim) \o <<i>>
                                        \o SubSeq(idx, dim + 1, Len(idx)))]]

\* ---------------------------------------------------------------- repeat_kv
\* a mutant: torch.repeat (tiling) instead of repeat_interleave
repeat_kv_tiled(x, n_rep) ==
  LET bs == x.shape[1]  n_kv_heads == x.shape[2]
      slen == x.shape[3]  head_dim == x.shape[4]
  IN  IF n_rep = 1 THEN x
      ELSE Reshape(Expand(Unsqueeze(x, 1), <<bs, n_rep, n_kv_heads, slen, head_dim>>),
                   <<bs, n_kv_heads * n_rep, slen, head_dim>>)

repeat_kv(x, n_rep) ==
  LET bs == x.shape[1]  n_kv_heads == x.shape[2]
      slen == x.shape[3]  head_dim == x.shape[4]
  IN  IF n_rep = 1 THEN x
      ELSE Reshape(Expand(Unsqueeze(x, 2), <<bs, n_kv_heads, n_rep, slen, head_dim>>),
                   <<bs, n_kv_heads * n_rep, slen, head_dim>>)

EmptyTensor == [shape |-> <<0>>, data |-> <<>>]

\* -------------------------------------------------------- Python floats
\* A Python float is an IEEE-754 binary64.  A finite positive one is held as
\* [m, e], the value m * 2^e with m an integer of exactly MantBits bits
\* (0 is [m |-> <<>>, e |-> 0]); integers of that size are sequences of limbs
\* in base 2^LimbBits, least significant first, without leading zero limbs.
LimbBits == 15
Base == 32768
MantBits == 53

RECURSIVE Pow2(_)
Pow2(n) == IF n = 0 THEN 1 ELSE 2 * Pow2(n - 1)

RECURSIVE BigNorm(_)
BigNorm(a) ==
  IF a = <<>> THEN <<>>
  ELSE IF a[Len(a)] = 0 THEN BigNorm(SubSeq(a, 1, Len(a) - 1))
  ELSE a

RECURSIVE BigOfInt(_)
BigOfInt(n) == IF n = 0 THEN <<>> ELSE <<n % Base>> \o BigOfInt(n \div Base)

Limb(a, i) == IF i >= 1 /\ i <= Len(a) THEN a[i] ELSE 0

RECURSIVE BitsOfInt(_)
BitsOfInt(n) == IF n = 0 THEN 0 ELSE 1 + BitsOfInt(n \div 2)

BigBits(a) ==
  IF a = <<>> THEN 0 ELSE (Len(a) - 1) * LimbBits + BitsOfInt(a[Len(a)])

\* -1, 0 or 1 as a < b, a = b or a > b, comparing the limbs i down to 1
RECURSIVE BigCmpFrom(_, _, _)
BigCmpFrom(a, b, i) ==
  IF i = 0 THEN 0
  ELSE IF a[i] < b[i] THEN -1
  ELSE IF a[i] > b[i] THEN 1
  ELSE BigCmpFrom(a, b, i - 1)

BigCmp(a, b) ==
  IF Len(a) < Len(b) THEN -1
  ELSE IF Len(a) > Len(b) THEN 1
  ELSE BigCmpFrom(a, b, Len(a))

RECURSIVE BigAddFrom(_, _, _, _)
BigAddFrom(a, b, i, carry) ==
  IF i > Len(a) /\ i > Len(b)
  THEN IF carry = 0 THEN <<>> ELSE <<carry>>
  ELSE LET t == Limb(a, i) + Limb(b, i) + carry
       IN  <<t % Base>> \o BigAddFrom(a, b, i + 1, t \div Base)

BigAdd(a, b) == BigAddFrom(a, b, 1, 0)

\* a - b for a >= b
RECURSIVE BigSubFrom(_, _, _, _)
BigSubFrom(a, b, i, borrow) ==
  IF i > Len(a) THEN <<>>
  ELSE LET t == a[i] - Limb(b, i) - borrow
       IN  <<(t + Base) % Base>> \o BigSubFrom(a, b, i + 1, IF t < 0 THEN 1 ELSE 0)

BigSub(a, b) == BigNorm(BigSubFrom(a, b, 1, 0))

\* a * k for a limb k
RECURSIVE BigMulLimbFrom(_, _, _, _)
BigMulLimbFrom(a, k, i, carry) ==
  IF i > Len(a)
  THEN IF carry = 0 THEN <<>> ELSE <<carry>>
  ELSE LET t == a[i] * k + carry
       IN  <<t % Base>> \o BigMulLimbFrom(a, k, i + 1, t \div Base)

BigMulLimb(a, k) == IF k = 0 THEN <<>> ELSE BigMulLimbFrom(a, k, 1, 0)

Zeros(n) == [i \in 1..n |-> 0]

RECURSIVE BigMulFrom(_, _, _)
BigMulFrom(a, b, j) ==
  IF j > Len(b) THEN <<>>
  ELSE LET row == BigMulLimb(a, b[j])
       IN  BigAdd(IF row = <<>> THEN <<>> ELSE Zeros(j - 1) \o row,
                  BigMulFrom(a, b, j + 1))

BigMul(a, b) == IF a = <<>> \/ b = <<>> THEN <<>> ELSE BigMulFrom(a, b, 1)

\* the quotient of a by a limb k, from the limb i down, with the remainder so far
RECURSIVE BigDivLimbFrom(_, _, _, _)
BigDivLimbFrom(a, k, i, rem) ==
  IF i = 0 THEN <<>>
  ELSE LET t == rem * Base + a[i]
       IN  BigDivLimbFrom(a, k, i - 1, t % k) \o <<t \div k>>

BigDivLimb(a, k) == BigNorm(BigDivLimbFrom(a, k, Len(a), 0))

RECURSIVE BigModLimbFrom(_, _, _, _)
BigModLimbFrom(a, k, i, rem) ==
  IF i = 0 THEN rem ELSE BigModLimbFrom(a, k, i - 1, (rem * Base + a[i]) % k)

BigModLimb(a, k) == BigModLimbFrom(a, k, Len(a), 0)

\* a * 2^n
BigShl(a, n) ==
  IF a = <<>> THEN <<>>
  ELSE Zeros(n \div LimbBits) \o BigMulLimb(a, Pow2(n % LimbBits))

\* a \div 2^n
BigShr(a, n) ==
  LET whole == n \div LimbBits
      rest == IF whole >= Len(a) THEN <<>> ELSE SubSeq(a, whole + 1, Len(a))
  IN  BigDivLimb(rest, Pow2(n % LimbBits))

BigOdd(a) == a # <<>> /\ a[1] % 2 = 1

F64Zero == [m |-> <<>>, e |-> 0]

\* m * 2^e (and, when sticky, a little more than that) rounded to the nearest
\* float, ties to even
F64Round(m, e, sticky) ==
  LET bits == BigBits(m)
      shift == bits - MantBits
      q == BigShr(m, shift)
      r == BigSub(m, BigShl(q, shift))
      c == BigCmp(r, BigShl(<<1>>, shift - 1))
      up == c > 0 \/ (c = 0 /\ (sticky \/ BigOdd(q)))
      q1 == IF up THEN BigAdd(q, <<1>>) ELSE q
  IN  IF m = <<>> THEN F64Zero
      ELSE IF shift <= 0 THEN [m |-> BigShl(m, -shift), e |-> e + shift]
      ELSE IF BigBits(q1) > MantBits THEN [m |-> BigShr(q1, 1), e |-> e + shift + 1]
      ELSE [m |-> q1, e |-> e + shift]

\* the float of the decimal literal num / den (den a power of ten below Base)
LiteralBits == 75
F64Literal(num, den) ==
  LET n == BigShl(BigOfInt(num), LiteralBits)
  IN  F64Round(BigDivLimb(n, den), -LiteralBits, BigModLimb(n, den) # 0)

\* float(n) of a small non-negative int
F64OfInt(n) == F64Round(BigOfInt(n), 0, FALSE)

F64Mul(a, b) ==
  IF a.m = <<>> \/ b.m = <<>> THEN F64Zero
  ELSE F64Round(BigMul(a.m, b.m), a.e + b.e, FALSE)

\* -1, 0, 1 as a < b, a = b, a > b (non-negative floats)
F64Cmp(a, b) ==
  IF a.m = <<>> \/ b.m = <<>>
  THEN (IF a.m = b.m THEN 0 ELSE IF a.m = <<>> THEN -1 ELSE 1)
  ELSE IF a.e < b.e THEN -1
  ELSE IF a.e > b.e THEN 1
  ELSE BigCmp(a.m, b.m)

\* a - b for floats a >= b >= 0
F64Sub(a, b) ==
  IF b.m = <<>> THEN a
  ELSE LET e0 == IF a.e < b.e THEN a.e ELSE b.e
       IN  F64Round(BigSub(BigShl(a.m, a.e - e0), BigShl(b.m, b.e - e0)), e0, FALSE)

\* math.exp(-a) for a float a >= 0, computed in fixed point with ExpFracBits
\* fractional bits: the alternating series of exp(-a / 2^ExpHalvings), then
\* ExpHalvings squarings, then rounded to a float
ExpFracBits == 150
ExpHalvings == 10
FixMul(u, v) == BigShr(BigMul(u, v), ExpFracBits)

\* the series from term n on, added to the sums so far: <<sum of the even
\* terms, sum of the odd terms>> (the even sum stays the larger one)
RECURSIVE ExpSeries(_, _, _, _, _)
ExpSeries(y, term, n, even, odd) ==
  IF term = <<>> \/ BigCmp(even, odd) < 0 THEN <<even, odd>>
  ELSE IF n % 2 = 0
  THEN ExpSeries(y, BigDivLimb(FixMul(term, y), n + 1), n + 1,
                 BigAdd(even, term), odd)
  ELSE ExpSeries(y, BigDivLimb(FixMul(term, y), n + 1), n + 1,
                 even, BigAdd(odd, term))

RECURSIVE FixSquare(_, _)
FixSquare(u, k) ==
  IF k = 0 \/ u = <<>> THEN u ELSE FixSquare(FixMul(u, u), k - 1)

F64ExpNeg(a) ==
  LET y == IF a.m = <<>> THEN <<>>
           ELSE BigShl(a.m, a.e + ExpFracBits - ExpHalvings)
      one == BigShl(<<1>>, ExpFracBits)
      sums == ExpSeries(y, BigDivLimb(FixMul(one, y), 1), 1, one, <<>>)
      small == BigSub(sums[1], sums[2])
  IN  F64Round(FixSquare(small, ExpHalvings), -ExpFracBits, a.m # <<>>)

\* a mutant: the schedule started at 0.6 instead of 0.8
lambda_init_fn_low(depth) ==
  F64Sub(F64Literal(6, 10),
         F64Mul(F64Literal(6, 10),
                F64ExpNeg(F64Mul(F64Literal(3, 10), F64OfInt(depth)))))

\* 0.8 - 0.6 * math.exp(-0.3 * depth)
lambda_init_fn(depth) ==
  F64Sub(F64Literal(8, 10),
         F64Mul(F64Literal(6, 10),
                F64ExpNeg(F64Mul(F64Literal(3, 10), F64OfInt(depth)))))

\* 1 - c for a float 0 <= c <= 1
OneMinus(c) == F64Sub(F64OfInt(1), c)

\* ------------------------------------------------------------------- layer
\* an optional value: <<>> is None, <<v>> is v
None == <<>>
Some(v) == <<v>>


LiIdle ==
  /\ li_pc = "idle"
  /\ li_depth = 0
  /\ li_val = F64Zero
  /\ li_next = F64Zero

NoLayer ==
  [embed_dim |-> 0, num_heads |-> 0, num_kv_heads |-> 0, n_rep |-> 0,
   head_dim |-> 0, q_proj |-> <<>>, k_proj |-> <<>>, v_proj |-> <<>>,
   out_proj |-> <<>>, lambda_init |-> <<>>, lambda_q1 |-> <<>>,
   lambda_k1 |-> <<>>, lambda_q2 |-> <<>>, lambda_k2 |-> <<>>, subln |-> <<>>]
NoCtor == [args |-> <<>>, embed_dim |-> 0, depth |-> 0, num_heads |-> 0, error |-> ""]
NoCall == [status |-> "none"]

LayerIdle ==
  /\ pc = "idle"
  /\ ctor = NoCtor
  /\ layer = NoLayer
  /\ fwd = NoCall
  /\ kept = NoCall

\* ColumnParallelLinear(input_size, output_size, gather_output=False): each of
\* the world_size partitions holds output_size / world_size output features
ColumnParallelLinear(name, input_size, output_size, world_size) ==
  [name |-> name, in_features |-> input_size,
   out_features |-> output_size \div world_size,
   ok |-> output_size % world_size = 0]

\* RowParallelLinear(input_size, output_size, input_is_parallel=True): each
\* partition takes input_size / world_size input features
RowParallelLinear(name, input_size, output_size, world_size) ==
  [name |-> name, in_features |-> input_size \div world_size,
   out_features |-> output_size,
   ok |-> input_size % world_size = 0]

\* a mutant: head_dim without the halving for the two sub-heads
head_dim_unhalved(embed_dim, num_heads) == embed_dim \div num_heads

head_dim_of(embed_dim, num_heads) == (embed_dim \div num_heads) \div 2

\* MultiheadFlashDiff1.__init__ up to the random draws of the lambda vectors,
\* given the value of lambda_init_fn(depth): the exception it raises ("" when
\* none) and the attributes it has set
NewLayer(args, embed_dim, lambda_init, num_heads) ==
  LET mps == args.model_parallel_size
      kv == args.decoder_kv_attention_heads
      self_num_heads == num_heads \div mps
      num_kv_heads == IF kv # None THEN kv[1] \div mps ELSE num_heads \div mps
      n_rep == self_num_heads \div num_kv_heads
      head_dim == head_dim_of(embed_dim, num_heads)
      q_proj == ColumnParallelLinear("q_proj", embed_dim, embed_dim, mps)
      k_proj == ColumnParallelLinear("k_proj", embed_dim, embed_dim \div n_rep, mps)
      v_proj == ColumnParallelLinear("v_proj", embed_dim, embed_dim \div n_rep, mps)
      out_proj == RowParallelLinear("out_proj", embed_dim, embed_dim, mps)
      error ==
        IF num_kv_heads = 0 THEN "ZeroDivisionError: self.num_heads // self.num_kv_heads"
        ELSE IF head_dim = 0 THEN "ZeroDivisionError: self.head_dim ** -0.5"
        ELSE IF ~q_proj.ok THEN "AssertionError: q_proj"
        ELSE IF n_rep = 0 THEN "ZeroDivisionError: embed_dim // self.n_rep"
        ELSE IF ~k_proj.ok THEN "AssertionError: k_proj"
        ELSE IF ~out_proj.ok THEN "AssertionError: out_proj"
        ELSE ""
  IN  [error |-> error,
       self |-> IF error # "" THEN NoLayer
                ELSE [embed_dim |-> embed_dim, num_heads |-> self_num_heads,
                      num_kv_heads |-> num_kv_heads, n_rep |-> n_rep,
                      head_dim |-> head_dim,
                      q_proj |-> q_proj, k_proj |-> k_proj, v_proj |-> v_proj,
                      out_proj |-> out_proj,
                      lambda_init |-> lambda_init,
                      lambda_q1 |-> <<>>, lambda_k1 |-> <<>>,
                      lambda_q2 |-> <<>>, lambda_k2 |-> <<>>,
                      subln |-> [dim |-> 2 * head_dim, eps |-> "1e-5",
                                 elementwise_affine |-> FALSE]]]

\* values of a lambda parameter (torch.zeros(head_dim).normal_(mean=0, std=0.1)
\* at construction, any float after training): a first coordinate drawn from
\* Vals, then 1 throughout
LambdaVectors(head_dim, Vals) ==
  { [i \in 1..head_dim |-> IF i = 1 THEN a ELSE 1] : a \in Vals }

Construct(Embeds, Heads, KVs, MPs, Depths, Vals) ==
  /\ pc = "start"
  /\ \E at \in { [depth |-> d, lambda_init |-> lambda_init_fn(d)] : d \in Depths },
        embed_dim \in Embeds, num_heads \in Heads, kv \in KVs, mps \in MPs :
       LET args == [model_parallel_size |-> mps, decoder_kv_attention_heads |-> kv]
           r == NewLayer(args, embed_dim, at.lambda_init, num_heads)
       IN  /\ ctor' = [args |-> args, embed_dim |-> embed_dim, depth |-> at.depth,
                       num_heads |-> num_heads, error |-> r.error]
           /\ IF r.error # ""
              THEN /\ pc' = "failed"
                   /\ layer' = NoLayer
              ELSE /\ pc' = "ready"
                   /\ \E q1 \in LambdaVectors(r.self.head_dim, Vals),
                         k1 \in LambdaVectors(r.self.head_dim, Vals),
                         q2 \in LambdaVectors(r.self.head_dim, Vals),
                         k2 \in LambdaVectors(r.self.head_dim, Vals) :
                        layer' = [r.self EXCEPT !.lambda_q1 = q1, !.lambda_k1 = k1,
                                                !.lambda_q2 = q2, !.lambda_k2 = k2]
  /\ UNCHANGED <<fwd, kept>>
  /\ UNCHANGED rk_vars
  /\ UNCHANGED li_vars

\* ----------------------------------------------------------------- forward
\* the element type of the k-th input
DType(k) == IF k % 3 = 1 THEN "float16" ELSE IF k % 3 = 2 THEN "bfloat16" ELSE "float32"

\* an input batch of embeddings; its elements are named by the input's id
Input(id, bsz, tgt_len, embed_dim) ==
  [id |-> id, dtype |-> DType(id), shape |-> <<bsz, tgt_len, embed_dim>>]

\* proj(x): a (bsz, len, out_features) tensor whose element i is output
\* feature i % out_features of token i \div out_features
Linear(proj, x) ==
  [src |-> [op |-> proj.name, x |-> x.id], dtype |-> x.dtype,
   shape |-> <<x.shape[1], x.shape[2], proj.out_features>>,
   data |-> [i \in 1..(x.shape[1] * x.shape[2] * proj.out_features) |-> i - 1]]

\* apply_rotary_emb(t, cos, sin, interleaved): the same shape; element i of the
\* result is element i of t rotated with its pair partner
apply_rotary_emb(t, rel_pos, interleaved) ==
  [t EXCEPT !.src = [op |-> "apply_rotary_emb", of |-> t.src,
                     rel_pos |-> rel_pos, interleaved |-> interleaved]]

\* flash_attn_func takes (batch, seq, heads, dim) tensors, the key and value
\* heads dividing the query heads, and returns (batch, seq, heads, value dim)
FlashAttnAccepts(q, k, v) ==
  /\ k.shape[3] > 0
  /\ q.shape[3] % k.shape[3] = 0
  /\ k.shape[3] = v.shape[3]
  /\ q.shape[4] = k.shape[4]

flash_attn_func(q, k, v, causal) ==
  [op |-> "flash_attn_func", q |-> q, k |-> k, v |-> v, causal |-> causal,
   shape |-> <<q.shape[1], q.shape[2], q.shape[3], v.shape[4]>>]

\* torch.sum(a * b, dim=-1)
RECURSIVE SumProd(_, _, _)
SumProd(a, b, n) ==
  IF n = 0 THEN 0 ELSE SumProd(a, b, n - 1) + a[n] * b[n]

\* the largest and smallest n with a finite, non-zero exp(n) in each type
ExpMaxFloat32 == 88
ExpMinFloat32 == -103
ExpMaxFloat16 == 11
ExpMinFloat16 == -17
ExpMaxBFloat16 == 88
ExpMinBFloat16 == -92
ExpMax(dtype) ==
  IF dtype = "float16" THEN ExpMaxFloat16
  ELSE IF dtype = "bfloat16" THEN ExpMaxBFloat16 ELSE ExpMaxFloat32
ExpMin(dtype) ==
  IF dtype = "float16" THEN ExpMinFloat16
  ELSE IF dtype = "bfloat16" THEN ExpMinBFloat16 ELSE ExpMinFloat32

\* torch.exp(s.float()).type_as(q): exp in float32, then cast to q's type;
\* a finite result is kept as the term exp(s)
ExpTypeAs(s, dtype) ==
  IF s > ExpMaxFloat32 \/ s > ExpMax(dtype) THEN [kind |-> "inf", arg |-> 0]
  ELSE IF s < ExpMinFloat32 \/ s < ExpMin(dtype) THEN [kind |-> "zero", arg |-> 0]
  ELSE [kind |-> "exp", arg |-> s]

\* a mutant: the gate built from lambda_1 alone
LambdaFullNoSubtract(l1, l2, lambda_init) ==
  [kind |-> IF l1.kind = "inf" THEN "inf" ELSE "finite",
   plus |-> IF l1.kind = "exp" THEN {l1.arg} ELSE {},
   minus |-> {}, init |-> lambda_init]

\* lambda_1 - lambda_2 + self.lambda_init in IEEE arithmetic: inf - inf is nan,
\* x - x is 0 for a finite x; a finite result is the term
\* sum(exp(plus)) - sum(exp(minus)) + init
LambdaFull(l1, l2, lambda_init) ==
  [kind |-> IF l1.kind = "inf" /\ l2.kind = "inf" THEN "nan"
            ELSE IF l1.kind = "inf" THEN "inf"
            ELSE IF l2.kind = "inf" THEN "-inf"
            ELSE "finite",
   plus |-> IF l1.kind = "exp" /\ l1 # l2 /\ l2.kind # "inf" THEN {l1.arg} ELSE {},
   minus |-> IF l2.kind = "exp" /\ l1 # l2 /\ l1.kind # "inf" THEN {l2.arg} ELSE {},
   init |-> lambda_init]

\* the scalar self.lambda_init in the form of LambdaFull
Scalar(lambda_init) ==
  [kind |-> "finite", plus |-> {}, minus |-> {}, init |-> lambda_init]

\* a mutant: causal masking only when no mask is passed
CausalUnlessMasked(attn_mask) == attn_mask = None

\* the causal argument of both flash_attn_func calls
Causal(attn_mask) == TRUE

\* a mutant: the two sub-heads taken as the two halves of the doubled-head axis
SplitHalves(t, bsz, len, heads, head_dim, which) ==
  Select(Reshape(t, <<bsz, len, 2, heads, head_dim>>), 2, which)

\* q.reshape(bsz, len, heads, 2, head_dim)[:, :, :, which]
SubHead(t, bsz, len, heads, head_dim, which) ==
  Select(Reshape(t, <<bsz, len, heads, 2, head_dim>>), 3, which)

\* a mutant: the rescale by the per-call gate
RescaleByLambdaFull(self, lambda_full) ==
  [m |-> <<>>, e |-> 0, one_minus |-> lambda_full]

\* the factor of attn * (1 - self.lambda_init)
Rescale(self, lambda_full) == OneMinus(self.lambda_init)

Raise(x, rel_pos, attn_mask, error, views_ok) ==
  [status |-> error, x |-> x, rel_pos |-> rel_pos, attn_mask |-> attn_mask,
   views_ok |-> views_ok, attn_called |-> views_ok,
   lambda_1 |-> <<>>, lambda_2 |-> <<>>, lambda_full |-> <<>>, out |-> <<>>]

\* MultiheadFlashDiff1.forward: the outcome of self.forward(x, rel_pos, attn_mask)
Forward(self, x, rel_pos, attn_mask) ==
  LET bsz == x.shape[1]
      tgt_len == x.shape[2]
      src_len == tgt_len
      q0 == Linear(self.q_proj, x)
      k0 == Linear(self.k_proj, x)
      v0 == Linear(self.v_proj, x)
      q_shape == <<bsz, tgt_len, 2 * self.num_heads, self.head_dim>>
      k_shape == <<bsz, src_len, 2 * self.num_kv_heads, self.head_dim>>
      v_shape == <<bsz, src_len, self.num_kv_heads, 2 * self.head_dim>>
      v == Reshape(v0, v_shape)
      q == apply_rotary_emb(Reshape(q0, q_shape), rel_pos, TRUE)
      k == apply_rotary_emb(Reshape(k0, k_shape), rel_pos, TRUE)
      q1 == SubHead(q, bsz, tgt_len, self.num_heads, self.head_dim, 0)
      q2 == SubHead(q, bsz, tgt_len, self.num_heads, self.head_dim, 1)
      k1 == SubHead(k, bsz, src_len, self.num_kv_heads, self.head_dim, 0)
      k2 == SubHead(k, bsz, src_len, self.num_kv_heads, self.head_dim, 1)
      attn1 == flash_attn_func(q1, k1, v, Causal(attn_mask))
      attn2 == flash_attn_func(q2, k2, v, Causal(attn_mask))
      lambda_1 == ExpTypeAs(SumProd(self.lambda_q1, self.lambda_k1, self.head_dim),
                            x.dtype)
      lambda_2 == ExpTypeAs(SumProd(self.lambda_q2, self.lambda_k2, self.head_dim),
                            x.dtype)
      lambda_full == LambdaFull(lambda_1, lambda_2, self.lambda_init)
      attn == [op |-> "sub", a |-> attn1,
               b |-> [op |-> "mul", s |-> lambda_full, t |-> attn2],
               shape |-> attn1.shape]
      normed == [op |-> "subln", arg |-> attn, dim |-> self.subln.dim,
                 shape |-> attn.shape]
      scaled == [op |-> "mul", arg |-> normed, s |-> Rescale(self, lambda_full),
                 shape |-> normed.shape]
      flat == [op |-> "reshape", arg |-> scaled,
               shape |-> <<bsz, tgt_len, self.num_heads * 2 * self.head_dim>>]
      out == [op |-> "out_proj", arg |-> flat,
              shape |-> <<bsz, tgt_len, self.out_proj.out_features>>]
  IN  IF x.shape[3] # self.q_proj.in_features
        THEN Raise(x, rel_pos, attn_mask, "RuntimeError: q_proj", FALSE)
      ELSE IF ~CanReshape(q0, q_shape)
        THEN Raise(x, rel_pos, attn_mask, "RuntimeError: q.view", FALSE)
      ELSE IF ~CanReshape(k0, k_shape)
        THEN Raise(x, rel_pos, attn_mask, "RuntimeError: k.view", FALSE)
      ELSE IF ~CanReshape(v0, v_shape)
        THEN Raise(x, rel_pos, attn_mask, "RuntimeError: v.view", FALSE)
      ELSE IF ~FlashAttnAccepts(q1, k1, v)
        THEN Raise(x, rel_pos, attn_mask, "RuntimeError: flash_attn_func", TRUE)
      ELSE IF flat.shape[3] # self.out_proj.in_features
        THEN Raise(x, rel_pos, attn_mask, "RuntimeError: out_proj", TRUE)
      ELSE [status |-> "ok", x |-> x, rel_pos |-> rel_pos, attn_mask |-> attn_mask,
            views_ok |-> TRUE, attn_called |-> TRUE,
            lambda_1 |-> lambda_1, lambda_2 |-> lambda_2,
            lambda_full |-> lambda_full, out |-> out]

\* a mutant: forward stores the gate of the call in self.lambda_init
SelfAfterForwardCaching(self, r) ==
  IF r.status = "ok" THEN [self EXCEPT !.lambda_init = r.lambda_full] ELSE self

\* self after forward: forward assigns no attribute of self
SelfAfterForward(self, r) == self

Call(Ids, Batches, Lens, RelPos, Masks) ==
  /\ pc = "ready"
  /\ \E id \in Ids, bsz \in Batches, tgt_len \in Lens, rel_pos \in RelPos,
        attn_mask \in Masks :
       LET r == Forward(layer, Input(id, bsz, tgt_len, layer.embed_dim),
                        rel_pos, attn_mask)
       IN  /\ fwd' = r
           /\ layer' = SelfAfterForward(layer, r)
  /\ kept' \in (IF fwd = NoCall THEN {kept} ELSE {kept, fwd})
  /\ UNCHANGED <<pc, ctor>>
  /\ UNCHANGED rk_vars
  /\ UNCHANGED li_vars

\* inputs of repeat_kv: every 4-d shape within the bounds, with all-distinct
\* elements or with repeating ones
RkInputs ==
  { [shape |-> <<b, g, s, d>>,
     data  |-> [i \in 1..(b * g * s * d) |-> IF m = 0 THEN i - 1 ELSE (i - 1) % m]] :
      b \in 1..MaxDim, g \in 1..MaxDim, s \in 1..MaxDim, d \in 1..MaxDim, m \in {0, 3} }

RkIdle ==
  /\ rk_pc = "idle"
  /\ rk_x = EmptyTensor
  /\ rk_n = 1
  /\ rk_out = EmptyTensor

RkInit ==
  /\ rk_pc = "call"
  /\ rk_x \in RkInputs
  /\ rk_n \in 1..MaxRep
  /\ rk_out = EmptyTensor
  /\ LayerIdle
  /\ LiIdle

RepeatKV ==
  /\ rk_pc = "call"
  /\ rk_out' = repeat_kv(rk_x, rk_n)
  /\ rk_pc' = "returned"
  /\ UNCHANGED <<rk_x, rk_n>>
  /\ UNCHANGED layer_vars
  /\ UNCHANGED li_vars

RkNext == RepeatKV

SpecRepeatKV == RkInit /\ [][RkNext]_vars

\* ------------------------------------------------------- lambda_init_fn
MaxScheduleDepth == 130

LiInit ==
  /\ li_pc = "call"
  /\ li_depth \in 0..MaxScheduleDepth
  /\ li_val = F64Zero
  /\ li_next = F64Zero
  /\ LayerIdle
  /\ RkIdle

\* lambda_init_fn for a layer and for the layer after it
LambdaInit ==
  /\ li_pc = "call"
  /\ li_val' = lambda_init_fn(li_depth)
  /\ li_next' = lambda_init_fn(li_depth + 1)
  /\ li_pc' = "returned"
  /\ UNCHANGED li_depth
  /\ UNCHANGED layer_vars
  /\ UNCHANGED rk_vars

LiNext == LambdaInit

SpecLambdaInit == LiInit /\ [][LiNext]_vars

\* ------------------------------------------------------------ specifications
MaxEmbed == 14
MaxHeads == 7
MaxParallel == 2
MaxBatch == 2
MaxLen == 2

KVHeads(n) == {None} \cup {Some(k) : k \in 1..n}

Init ==
  /\ pc = "start"
  /\ ctor = NoCtor
  /\ layer = NoLayer
  /\ fwd = NoCall
  /\ kept = NoCall
  /\ RkIdle
  /\ LiIdle

ConstructAny ==
  Construct(1..MaxEmbed, 1..MaxHeads, KVHeads(MaxHeads), 1..MaxParallel, {0}, {1})

CallAnyShape == Call({1}, 1..MaxBatch, 1..MaxLen, {1}, {None})

Next == ConstructAny \/ CallAnyShape

Spec == Init /\ [][Next]_vars

\* forward on small layers with every draw of the lambda vectors, several
\* inputs and masks
FwdMaxEmbed == 4
FwdMaxHeads == 2
FwdMaxDepth == 1
NumInputs == 2
LambdaVals == {-2, 10}
Masks == {None, Some(1)}

ConstructSmall ==
  Construct(1..FwdMaxEmbed, 1..FwdMaxHeads, KVHeads(FwdMaxHeads), {1},
            0..FwdMaxDepth, LambdaVals)

CallAnyInput == Call(1..NumInputs, {1}, {1}, {1}, Masks)

NextForward == ConstructSmall \/ CallAnyInput

SpecForward == Init /\ [][NextForward]_vars


\* -------------------------------------------------- claims: configuration
\* the key/value head count __init__ was asked for (num_heads when None)
AskedKVHeads ==
  IF ctor.args.decoder_kv_attention_heads = None THEN ctor.num_heads
  ELSE ctor.args.decoder_kv_attention_heads[1]

\* the three conditions of section 4.3 on the constructor's arguments
Validated ==
  /\ ctor.embed_dim % ctor.num_heads = 0
  /\ (ctor.embed_dim \div ctor.num_heads) % 2 = 0
  /\ (ctor.embed_dim \div ctor.num_heads) \div 2 >= 1
  /\ ctor.num_heads % AskedKVHeads = 0

\* C1: constructing the layer fails for every configuration that violates
\* embed_dim % num_heads == 0, embed_dim // num_heads even with head_dim >= 1,
\* or num_heads % num_kv_heads == 0: a layer exists only for configurations
\* that satisfy all three.
C1_ConstructionValidates ==
  (pc = "ready" /\ ctor.args.model_parallel_size = 1) => Validated

\* C2: for every valid configuration (embed_dim divisible by 2 * num_heads,
\* num_heads divisible by num_kv_heads, model_parallel_size = 1) the layer is
\* built with num_heads * 2 * head_dim = embed_dim and
\* embed_dim // n_rep = 2 * num_kv_heads * head_dim, and every forward call, for
\* every batch and sequence length, returns a (batch, seq, embed_dim) tensor,
\* the shape of its input.
C2_OutputShape ==
  (/\ pc # "start"
   /\ ctor.args.model_parallel_size = 1
   /\ ctor.embed_dim % (2 * ctor.num_heads) = 0
   /\ ctor.num_heads % AskedKVHeads = 0)
  => /\ pc = "ready"
     /\ layer.num_heads * 2 * layer.head_dim = ctor.embed_dim
     /\ ctor.embed_dim \div layer.n_rep = 2 * layer.num_kv_heads * layer.head_dim
     /\ layer.k_proj.out_features = 2 * layer.num_kv_heads * layer.head_dim
     /\ \A c \in {fwd, kept} :
          c # NoCall =>
            /\ c.status = "ok"
            /\ c.out.shape = c.x.shape
            /\ c.out.shape = <<c.x.shape[1], c.x.shape[2], ctor.embed_dim>>

\* a forward call on a grouped-query layer (1 < num_kv_heads < num_heads) with
\* several sequences of several tokens
C2_Witness ==
  /\ pc = "ready"
  /\ ctor.args.model_parallel_size = 1
  /\ ctor.embed_dim % (2 * ctor.num_heads) = 0
  /\ layer.num_kv_heads > 1
  /\ layer.num_kv_heads < layer.num_heads
  /\ layer.num_heads % layer.num_kv_heads = 0
  /\ fwd # NoCall
  /\ fwd.status = "ok"
  /\ fwd.x.shape[1] > 1
  /\ fwd.x.shape[2] > 1

\* C10: with model_parallel_size = 1, if construction completes and the
\* reshapes of forward are element-count consistent, then embed_dim is
\* divisible by 2 * num_heads and num_heads by num_kv_heads: no invalid
\* configuration gets as far as the attention primitive.
C10_InvalidNeverReachesAttention ==
  (/\ pc = "ready"
   /\ ctor.args.model_parallel_size = 1
   /\ fwd # NoCall
   /\ fwd.views_ok)
  => /\ ctor.embed_dim % (2 * ctor.num_heads) = 0
     /\ ctor.num_heads % AskedKVHeads = 0

\* ------------------------------------------------------- claims: forward
\* the parts of a completed forward call
Combined(c) == c.out.arg.arg.arg.arg
Attn1(c) == Combined(c).a
Attn2(c) == Combined(c).b.t
Calls == {c \in {fwd, kept} : c # NoCall}
Completed == {c \in Calls : c.status = "ok"}

\* C4: the attn_mask argument has no influence on the result: two forward
\* calls on the same layer with the same x and rel_pos end alike and return the
\* same output whatever their attn_mask, and both flash_attn_func calls of
\* every forward are causal.
C4_MaskIgnored ==
  /\ \A c1 \in Calls, c2 \in Calls :
       (c1.x = c2.x /\ c1.rel_pos = c2.rel_pos)
         => (c1.status = c2.status /\ c1.out = c2.out)
  /\ \A c \in Completed : Attn1(c).causal /\ Attn2(c).causal

\* two completed calls with the same x and rel_pos, one with a mask, one without
C4_Witness ==
  /\ fwd # NoCall
  /\ kept # NoCall
  /\ fwd.status = "ok"
  /\ fwd.x = kept.x
  /\ fwd.rel_pos = kept.rel_pos
  /\ fwd.attn_mask = None
  /\ kept.attn_mask # None

\* the dot product of two lambda vectors
RECURSIVE DotProduct(_, _)
DotProduct(a, b) ==
  IF a = <<>> THEN 0 ELSE Head(a) * Head(b) + DotProduct(Tail(a), Tail(b))

\* exp(s) is infinite in the type of the call's tensors
Overflows(s, dtype) ==
  s > ExpMaxFloat32 \/ (dtype = "float16" /\ s > ExpMaxFloat16)

EqualLambdaPairs ==
  layer.lambda_q1 = layer.lambda_q2 /\ layer.lambda_k1 = layer.lambda_k2

Degenerate(c) ==
  /\ c.lambda_1 = c.lambda_2
  /\ c.lambda_full = Scalar(layer.lambda_init)
  /\ Combined(c) = [op |-> "sub", a |-> Attn1(c),
                    b |-> [op |-> "mul", s |-> Scalar(layer.lambda_init),
                           t |-> Attn2(c)],
                    shape |-> Attn1(c).shape]

\* C5 as stated: whenever lambda_q1 == lambda_q2 and lambda_k1 == lambda_k2,
\* lambda_1 == lambda_2, lambda_full == lambda_init and the combined tensor is
\* attn1 - lambda_init * attn2.
C5_AsStated ==
  \A c \in Completed : EqualLambdaPairs => Degenerate(c)

\* C5: if lambda_q1 == lambda_q2 and lambda_k1 == lambda_k2 and exp of their
\* dot product is finite in the tensors' type, then lambda_1 == lambda_2,
\* lambda_full == lambda_init and the combined tensor is
\* attn1 - lambda_init * attn2 (when it is infinite, lambda_full is nan); in
\* general lambda_full is exp(sum lambda_q1 * lambda_k1) -
\* exp(sum lambda_q2 * lambda_k2) + lambda_init in IEEE arithmetic.
C5_LambdaFull ==
  \A c \in Completed :
    LET s1 == DotProduct(layer.lambda_q1, layer.lambda_k1)
        s2 == DotProduct(layer.lambda_q2, layer.lambda_k2)
        inf1 == Overflows(s1, c.x.dtype)
        inf2 == Overflows(s2, c.x.dtype)
    IN  /\ c.lambda_1 = ExpTypeAs(s1, c.x.dtype)
        /\ c.lambda_2 = ExpTypeAs(s2, c.x.dtype)
        /\ c.lambda_full.init = layer.lambda_init
        /\ c.lambda_full.kind =
             (IF inf1 /\ inf2 THEN "nan" ELSE IF inf1 THEN "inf"
              ELSE IF inf2 THEN "-inf" ELSE "finite")
        /\ (c.lambda_full.kind = "finite" =>
              /\ c.lambda_full.plus =
                   (IF c.lambda_1.kind = "exp" /\ c.lambda_1 # c.lambda_2
                    THEN {s1} ELSE {})
              /\ c.lambda_full.minus =
                   (IF c.lambda_2.kind = "exp" /\ c.lambda_1 # c.lambda_2
                    THEN {s2} ELSE {}))
        /\ Combined(c).b.s = c.lambda_full
        /\ (EqualLambdaPairs /\ ~inf1 => Degenerate(c))
        /\ (EqualLambdaPairs /\ inf1 => c.lambda_full.kind = "nan")

\* a completed call on a layer with equal lambda pairs and a finite, non-zero
\* exp of their dot product
C5_Witness ==
  /\ fwd # NoCall
  /\ fwd.status = "ok"
  /\ EqualLambdaPairs
  /\ layer.head_dim > 1
  /\ fwd.lambda_1.kind = "exp"
  /\ fwd.lambda_full = Scalar(layer.lambda_init)

SameInputs(c1, c2) ==
  c1.x = c2.x /\ c1.rel_pos = c2.rel_pos /\ c1.attn_mask = c2.attn_mask

\* C6: a forward call changes no attribute of the layer (configuration,
\* lambda_init, lambda vectors, projections), and it ends and returns as every
\* earlier call on the layer with the same inputs did.
C6_ForwardPure ==
  [][pc = "ready" =>
       /\ layer' = layer
       /\ \A c \in Calls :
            SameInputs(c, fwd') => (fwd'.status = c.status /\ fwd'.out = c.out)]_vars

\* a completed call that repeats the inputs of an earlier call, after a call
\* with other inputs in between
C6_Witness ==
  /\ fwd # NoCall
  /\ kept # NoCall
  /\ fwd.status = "ok"
  /\ SameInputs(fwd, kept)
  /\ fwd.out = kept.out
  /\ layer.lambda_q1 # layer.lambda_q2

\* lambda_init_fn at the depths of the layers built
ScheduleAt == [d \in 0..(FwdMaxDepth + 1) |-> lambda_init_fn(d)]

\* C8: after the combination, forward normalizes, rescales, reshapes and
\* projects, in this order, and the rescale factor is 1 - lambda_init, a
\* function of depth alone: the same for every value of the lambda vectors.
C8_RescaleByInit ==
  \A c \in Completed :
    /\ c.out.op = "out_proj"
    /\ c.out.arg.op = "reshape"
    /\ c.out.arg.arg.op = "mul"
    /\ c.out.arg.arg.arg.op = "subln"
    /\ c.out.arg.arg.arg.arg.op = "sub"
    /\ c.out.arg.arg.s = F64Sub(F64OfInt(1), ScheduleAt[ctor.depth])

\* a completed call whose gate lambda_full is not lambda_init
C8_Witness ==
  /\ fwd # NoCall
  /\ fwd.status = "ok"
  /\ ctor.depth > 0
  /\ fwd.lambda_full.kind = "finite"
  /\ fwd.lambda_full # Scalar(layer.lambda_init)

\* the elements of a tensor
Elements(t) == {t.data[i] : i \in 1..Len(t.data)}

\* C9: the sub-head split partitions the projected (and rotated) features:
\* q1[h][d] is query feature (2h) * head_dim + d and q2[h][d] is feature
\* (2h + 1) * head_dim + d of the token, likewise k1 and k2 over num_kv_heads,
\* so that every query and key feature is in exactly one branch; the value is
\* not split or rotated, both attention calls get the same v, and its group g
\* holds value features g * 2 * head_dim .. (g + 1) * 2 * head_dim - 1.
C9_SubHeadSplit ==
  \A c \in Completed :
    LET bsz == c.x.shape[1]
        len == c.x.shape[2]
        hd == layer.head_dim
        q1 == Attn1(c).q   q2 == Attn2(c).q
        k1 == Attn1(c).k   k2 == Attn2(c).k
        v == Attn1(c).v
        qw == layer.q_proj.out_features
        kw == layer.k_proj.out_features
        vw == layer.v_proj.out_features
    IN  /\ q1.shape = <<bsz, len, layer.num_heads, hd>>
        /\ q2.shape = q1.shape
        /\ k1.shape = <<bsz, len, layer.num_kv_heads, hd>>
        /\ k2.shape = k1.shape
        /\ \A b \in 0..(bsz - 1), s \in 0..(len - 1), d \in 0..(hd - 1) :
             /\ \A h \in 0..(layer.num_heads - 1) :
                  /\ At(q1, <<b, s, h, d>>) = (b * len + s) * qw + (2 * h) * hd + d
                  /\ At(q2, <<b, s, h, d>>) = (b * len + s) * qw + (2 * h + 1) * hd + d
             /\ \A g \in 0..(layer.num_kv_heads - 1) :
                  /\ At(k1, <<b, s, g, d>>) = (b * len + s) * kw + (2 * g) * hd + d
                  /\ At(k2, <<b, s, g, d>>) = (b * len + s) * kw + (2 * g + 1) * hd + d
        /\ Elements(q1) \cap Elements(q2) = {}
        /\ Elements(q1) \cup Elements(q2) = 0..(bsz * len * qw - 1)
        /\ Elements(k1) \cap Elements(k2) = {}
        /\ Elements(k1) \cup Elements(k2) = 0..(bsz * len * kw - 1)
        /\ q1.src = [op |-> "apply_rotary_emb", of |-> [op |-> "q_proj", x |-> c.x.id],
                     rel_pos |-> c.rel_pos, interleaved |-> TRUE]
        /\ q2.src = q1.src
        /\ k1.src = [op |-> "apply_rotary_emb", of |-> [op |-> "k_proj", x |-> c.x.id],
                     rel_pos |-> c.rel_pos, interleaved |-> TRUE]
        /\ k2.src = k1.src
        /\ Attn2(c).v = v
        /\ v.src = [op |-> "v_proj", x |-> c.x.id]
        /\ v.shape = <<bsz, len, layer.num_kv_heads, 2 * hd>>
        /\ \A b \in 0..(bsz - 1), s \in 0..(len - 1),
              g \in 0..(layer.num_kv_heads - 1), j \in 0..(2 * hd - 1) :
             At(v, <<b, s, g, j>>) = (b * len + s) * vw + g * 2 * hd + j

\* a completed call on several tokens with several heads sharing a key/value
\* head and several coordinates
C9_Witness ==
  /\ fwd # NoCall
  /\ fwd.status = "ok"
  /\ fwd.x.shape[1] > 1
  /\ fwd.x.shape[2] > 1
  /\ layer.num_heads > layer.num_kv_heads
  /\ layer.head_dim > 1

\* ------------------------------------------------- claims: lambda_init_fn
\* C7 as stated: lambda_init_fn(0) is exactly 0.2, and for every depth >= 0
\* lambda_init_fn(depth + 1) > lambda_init_fn(depth) and lambda_init_fn(depth) < 0.8.
C7_AsStated ==
  li_pc = "returned" =>
    /\ (li_depth = 0 => li_val = F64Literal(2, 10))
    /\ F64Cmp(li_next, li_val) > 0
    /\ F64Cmp(li_val, F64Literal(8, 10)) < 0

\* C7: lambda_init_fn(0) is the float two units in the last place above 0.2;
\* for every depth >= 0 lambda_init_fn(depth + 1) >= lambda_init_fn(depth) and
\* lambda_init_fn(depth) <= 0.8; the increase is strict up to depth 117 and the
\* value below 0.8 up to depth 123, and from depth 124 on the value is 0.8.
C7_Schedule ==
  li_pc = "returned" =>
    /\ (li_depth = 0 =>
          li_val = [m |-> BigAdd(F64Literal(2, 10).m, <<2>>),
                    e |-> F64Literal(2, 10).e])
    /\ F64Cmp(li_next, li_val) >= 0
    /\ F64Cmp(li_val, F64Literal(8, 10)) <= 0
    /\ (li_depth <= 117 => F64Cmp(li_next, li_val) > 0)
    /\ (li_depth <= 123 => F64Cmp(li_val, F64Literal(8, 10)) < 0)
    /\ (li_depth >= 124 => li_val = F64Literal(8, 10))

\* a depth at which the schedule has stopped increasing below 0.8
C7_Witness ==
  /\ li_pc = "returned"
  /\ li_depth = 118
  /\ li_next = li_val
  /\ F64Cmp(li_val, F64Literal(8, 10)) < 0

\* ------------------------------------------------------ claims: repeat_kv
\* C3: repeat_kv(x, n_rep) on a (batch, g, seq, dim) input returns a
\* (batch, g * n_rep, seq, dim) tensor whose head h is input head h \div n_rep
\* at every batch index, position and coordinate; for n_rep = 1 the result is
\* the input itself.
C3_RepeatInterleave ==
  rk_pc = "returned" =>
    LET b == rk_x.shape[1]  g == rk_x.shape[2]
        s == rk_x.shape[3]  d == rk_x.shape[4]
    IN  /\ rk_out.shape = <<b, g * rk_n, s, d>>
        /\ Len(rk_out.data) = b * g * rk_n * s * d
        /\ \A bi \in 0..(b - 1), h \in 0..(g * rk_n - 1),
              si \in 0..(s - 1), di \in 0..(d - 1) :
             At(rk_out, <<bi, h, si, di>>) = At(rk_x, <<bi, h \div rk_n, si, di>>)
        /\ (rk_n = 1 => rk_out = rk_x)

\* a call that really repeats several distinct heads
C3_Witness ==
  /\ rk_pc = "returned"
  /\ rk_n > 1
  /\ rk_x.shape[2] > 1
  /\ rk_x.shape[3] > 1
  /\ At(rk_x, <<0, 0, 0, 0>>) # At(rk_x, <<0, 1, 0, 0>>)
  /\ rk_out.shape[2] = rk_x.shape[2] * rk_n

====
